---- MODULE Spec2Model ----
\* The WebSocket connection manager of the admin panel (WebSocketManager in
\* src/src/db/index.ts), its event helpers (createEvent and the broadcast
\* functions) and the token verifier it calls (verifyToken in
\* src/src/lib/auth.ts).
\*
\* One step of the model is one run-to-completion callback of the Node event
\* loop: the 'connection' handler, a socket's 'pong' or 'close' event, one
\* tick of the heartbeat interval, or one call of a broadcast helper made by
\* an HTTP request handler.
EXTENDS Naturals, Sequences, FiniteSets, TLC

\* ------------------------------------------------------------------------
\* Universe of the model
\* ------------------------------------------------------------------------

\* Sockets the server can accept, in the order in which they arrive.
ConnOrder == <<"c1", "c2", "c3">>

Conns == {ConnOrder[i] : i \in DOMAIN ConnOrder}

\* payload.userId values.
Subjects == {"u1", "u2"}

\* UserRole, the keys of roleHierarchy.
Roles == {"viewer", "user", "admin", "super_admin"}

\* JavaScript undefined / null, for fields that hold strings otherwise.
Undefined == "undefined"

\* ws.close(1008, ...): the policy-violation close code.
PolicyViolation == 1008

\* Longest userIds array handed to broadcastToResourceUsers.
MaxUserIds == 2

\* ------------------------------------------------------------------------
\* Tokens and verifyToken
\* ------------------------------------------------------------------------

NullPayload == [userId |-> Undefined, role |-> Undefined]

\* What jwt.verify makes of each token string: the tokens signed with
\* JWT_SECRET, their payload and whether their 24h lifetime is over.
\* A user's role may differ between two of its tokens: the role was changed
\* in the users table between the two logins.
Signed ==
    [t \in {"jwt_u1_admin", "jwt_u1_user", "jwt_u2_viewer", "jwt_u2_super", "jwt_u1_old"} |->
        CASE t = "jwt_u1_admin"  -> [payload |-> [userId |-> "u1", role |-> "admin"], expired |-> FALSE]
          [] t = "jwt_u1_user"   -> [payload |-> [userId |-> "u1", role |-> "user"], expired |-> FALSE]
          [] t = "jwt_u2_viewer" -> [payload |-> [userId |-> "u2", role |-> "viewer"], expired |-> FALSE]
          [] t = "jwt_u2_super"  -> [payload |-> [userId |-> "u2", role |-> "super_admin"], expired |-> FALSE]
          [] t = "jwt_u1_old"    -> [payload |-> [userId |-> "u1", role |-> "admin"], expired |-> TRUE]]

\* Token strings a client can present: signed ones, one that is no JWT of
\* this server, and the empty string.
TokenStrings == DOMAIN Signed \cup {"garbage", ""}

\* Faulty variant of verifyToken: the payload is decoded and the signature
\* checked, but the expiry is not.
VerifyTokenIgnoringExpiry(token) ==
    IF token \in DOMAIN Signed
    THEN Signed[token].payload
    ELSE NullPayload

\* verifyToken: the payload, or null when jwt.verify throws.
VerifyToken(token) ==
    IF token \in DOMAIN Signed /\ ~Signed[token].expired
    THEN Signed[token].payload
    ELSE NullPayload

\* The `token` query parameter: url.searchParams.get('token'), null if absent.
QueryValues == TokenStrings \cup {Undefined}

\* The Authorization header: absent, or a string with or without the
\* 'Bearer ' prefix in front of the rest.
HeaderValues ==
    {[present |-> FALSE, bearer |-> FALSE, rest |-> ""]}
    \cup [present : {TRUE}, bearer : BOOLEAN,
          rest : {"jwt_u2_super", "jwt_u1_old", "garbage", ""}]

\* req.headers.authorization?.replace('Bearer ', '')
StripBearer(h) == IF h.present THEN h.rest ELSE Undefined

\* JavaScript truthiness of a string-or-null value.
Truthy(s) == s # Undefined /\ s # ""

\* Faulty variant of the token extraction: the header is looked at first.
ExtractTokenHeaderFirst(q, h) ==
    IF Truthy(StripBearer(h)) THEN StripBearer(h) ELSE q

\* url.searchParams.get('token') || req.headers.authorization?.replace(...)
ExtractToken(q, h) == IF Truthy(q) THEN q ELSE StripBearer(h)

\* ------------------------------------------------------------------------
\* Events
\* ------------------------------------------------------------------------

\* WebSocketEventType.
EventTypes ==
    {"device:online", "device:offline", "device:error", "lamp:toggled",
     "lamp:brightness_changed", "permission:granted", "permission:revoked",
     "user:created", "user:updated", "user:deleted", "alert:created",
     "alert:resolved", "system:maintenance_mode", "system:config_updated"}

\* The event types the API documentation lists as broadcast to 'Admins only'.
AdminOnlyTypes ==
    {"device:error", "user:created", "user:deleted", "alert:created",
     "alert:resolved", "system:config_updated"}

\* createEvent(type, data, userId?): the payload and the timestamp are
\* opaque to the manager and are left out.
CreateEvent(type, uid) == [type |-> type, userId |-> uid]

\* JSON.stringify(event): a property whose value is undefined is left out
\* of the wire form.
Wire(event) ==
    IF event.userId = Undefined
    THEN [type |-> event.type]
    ELSE [type |-> event.type, userId |-> event.userId]

HasUserId(msg) == "userId" \in DOMAIN msg

\* The message the 'connection' handler sends to a socket it has registered.
WelcomeEvent == [type |-> "system:config_updated", userId |-> Undefined]

\* ------------------------------------------------------------------------
\* State
\* ------------------------------------------------------------------------

VARIABLES
    clients,      \* WebSocketManager.clients: Map<userId, Set<socket>>
    wssClients,   \* wss.clients: the sockets of the server that are not closed
    readyState,   \* ws.readyState of each socket ("ABSENT": not yet accepted)
    userId,       \* ws.userId
    role,         \* ws.role
    isAlive,      \* ws.isAlive: "undefined", "true" or "false"
    listening,    \* sockets on which the pong/message/close/error handlers are set
    destroyed,    \* sockets terminate() has destroyed, 'close' not yet emitted
    closeCode,    \* code of the close frame the server has sent (0: none)
    missed,       \* sweeps that visited the socket since it was accepted or ponged
    calls,        \* what the step just taken did: one record per router call
                  \* or handled message, with the sends it made
    history,      \* observer's record of requests and router calls (see History)
    http,         \* the HTTP request the middleware handled last, and its outcome
    db,           \* the users and permissions tables
    requests      \* the requests the admin routes have received, in order of
                  \* arrival: where each stands and how it was answered

vars == <<clients, wssClients, readyState, userId, role, isAlive, listening,
          destroyed, closeCode, missed, calls, history, http,
          db, requests>>

EmptyMap == [k \in {} |-> {}]

NoWrites == [c \in Conns |-> <<>>]

\* The Authorization header of a request that has none.
NoHeader == [present |-> FALSE, bearer |-> FALSE, rest |-> ""]

\* The record of an observer who is not recording.
NoHistory ==
    [on |-> FALSE,
     request |-> [query |-> Undefined, header |-> NoHeader],
     serial |-> 0,
     subject |-> <<>>,
     joined |-> [c \in Conns |-> 0],
     outbox |-> [c \in Conns |-> <<>>]]

\* The tables after initializeDatabase(): the users the tokens were issued
\* to (the default super admin among them), no permission. Rows keep the
\* columns the routes read.
SeededDb ==
    [users |-> {[id |-> "u1", username |-> "admin", email |-> "admin@x"],
                [id |-> "u2", username |-> "vera", email |-> "vera@x"]},
     permissions |-> {},
     uuids |-> 0]

\* No HTTP request has been handled.
NoExchange == [wrapper |-> "none"]

\* The manager after construction and initialize(): no socket yet.
Idle ==
    /\ clients = EmptyMap
    /\ wssClients = {}
    /\ readyState = [c \in Conns |-> "ABSENT"]
    /\ userId = [c \in Conns |-> Undefined]
    /\ role = [c \in Conns |-> Undefined]
    /\ isAlive = [c \in Conns |-> "undefined"]
    /\ listening = {}
    /\ destroyed = {}
    /\ closeCode = [c \in Conns |-> 0]
    /\ missed = [c \in Conns |-> 0]
    /\ calls = <<>>

Init ==
    /\ Idle
    /\ history = NoHistory
    /\ http = NoExchange
    /\ db = SeededDb
    /\ requests = <<>>

\* The same start, watched by an observer who records.
RecordingInit ==
    /\ Idle
    /\ history = [NoHistory EXCEPT !.on = TRUE]
    /\ http = NoExchange
    /\ db = SeededDb
    /\ requests = <<>>

\* ------------------------------------------------------------------------
\* Registry queries
\* ------------------------------------------------------------------------

\* getConnectedUserIds(): Array.from(this.clients.keys())
GetConnectedUserIds == DOMAIN clients

\* getConnectedCount(): this.clients.size
GetConnectedCount == Cardinality(DOMAIN clients)

\* Every socket that is a member of some set of the map.
Registered == UNION {clients[u] : u \in DOMAIN clients}

\* ------------------------------------------------------------------------
\* Delivery to one socket
\* ------------------------------------------------------------------------

\* Faulty variant of ws.send: the newest message overtakes those written
\* before it.
WsSendFirst(written, msg) == <<msg>> \o written

\* ws.send(data): the socket transmits what it is given in the order it
\* is given it. written is what the socket was given before.
WsSend(written, msg) == Append(written, msg)

\* ------------------------------------------------------------------------
\* History: what an observer of the server notes down. It reads the state
\* and the step's calls and is read by no handler. Specifications that do
\* not need it start with history.on = FALSE and it never changes.
\* ------------------------------------------------------------------------

\* Router calls an observer records before the helpers stop being called.
MaxCalls == 2

\* An upgrade request reached the 'connection' handler: the observer notes
\* its credentials and how many router calls were made before it.
NoteAdmission(hist, c, q, h) ==
    IF hist.on
    THEN [hist EXCEPT !.request = [query |-> q, header |-> h],
                      !.joined[c] = hist.serial]
    ELSE hist

\* The messages of router calls cs, numbered from n + 1, that socket c was
\* given, passed to the socket after those it was given before.
RECURSIVE Transmit(_, _, _, _)
Transmit(written, cs, n, c) ==
    IF cs = <<>>
    THEN written
    ELSE Transmit(
            IF cs[1].sent[c] = <<>>
            THEN written
            ELSE WsSend(written, [n |-> n + 1]),
            Tail(cs), n + 1, c)

\* The subject of each router call of cs (Undefined for broadcastToAll and
\* broadcastToAdmins).
Subject(cs) == [i \in DOMAIN cs |-> cs[i].userId]

\* A helper made the router calls cs: the observer numbers them and notes,
\* for each socket, the messages it was given.
NoteCalls(hist, cs) ==
    IF hist.on
    THEN [hist EXCEPT !.serial = @ + Len(cs),
                      !.subject = @ \o Subject(cs),
                      !.outbox = [c \in Conns |-> Transmit(hist.outbox[c], cs, hist.serial, c)]]
    ELSE hist

\* Faulty variant of sendToClient: the test is readyState !== CLOSED, which
\* lets a socket that is closing be written to.
SendToClientUnlessClosed(w, rs, c, event) ==
    IF rs[c] # "CLOSED"
    THEN [w EXCEPT ![c] = WsSend(@, Wire(event))]
    ELSE w

\* Faulty variant of sendToClient: the readyState test is missing.
SendToClientUnchecked(w, rs, c, event) ==
    [w EXCEPT ![c] = Append(@, Wire(event))]

\* sendToClient(ws, event): ws.send(JSON.stringify(event)) if and only if
\* ws.readyState === WebSocket.OPEN. w is what the running handler has
\* written to each socket so far, rs the ready states as of the send.
SendToClient(w, rs, c, event) ==
    IF rs[c] = "OPEN"
    THEN [w EXCEPT ![c] = WsSend(@, Wire(event))]
    ELSE w

\* ------------------------------------------------------------------------
\* The 'connection' handler
\* ------------------------------------------------------------------------

\* Faulty variant of the registration: a fresh Set for every socket, which
\* drops the user's other sockets from the map.
RegisterOverwrite(cl, uid, c) ==
    [k \in DOMAIN cl \cup {uid} |-> IF k = uid THEN {c} ELSE cl[k]]

\* if (!this.clients.has(userId)) this.clients.set(userId, new Set());
\* this.clients.get(userId).add(ws);
Register(cl, uid, c) ==
    IF uid \in DOMAIN cl
    THEN [cl EXCEPT ![uid] = @ \cup {c}]
    ELSE [k \in DOMAIN cl \cup {uid} |-> IF k = uid THEN {c} ELSE cl[k]]

\* Sockets are named in their order of arrival.
NextToArrive(c) ==
    \E i \in DOMAIN ConnOrder :
        /\ ConnOrder[i] = c
        /\ readyState[c] = "ABSENT"
        /\ \A j \in 1..(i - 1) : readyState[ConnOrder[j]] # "ABSENT"

\* ws.close(1008, reason); return;  -- the socket starts its closing
\* handshake, nothing is attached to it and nothing is registered.
Reject(c) ==
    /\ readyState' = [readyState EXCEPT ![c] = "CLOSING"]
    /\ closeCode' = [closeCode EXCEPT ![c] = PolicyViolation]
    /\ calls' = <<>>
    /\ UNCHANGED <<clients, userId, role, isAlive, listening>>

\* Faulty variant of the accepting branch: the welcome message goes to
\* every socket of the user instead of the new socket alone.
AcceptAnnouncing(c, payload) ==
    /\ userId' = [userId EXCEPT ![c] = payload.userId]
    /\ role' = [role EXCEPT ![c] = payload.role]
    /\ isAlive' = [isAlive EXCEPT ![c] = "true"]
    /\ clients' = Register(clients, payload.userId, c)
    /\ readyState' = [readyState EXCEPT ![c] = "OPEN"]
    /\ calls' = << [method |-> "sendToClient", userId |-> Undefined,
                   event |-> WelcomeEvent,
                   sent |-> [d \in Conns |->
                       IF d \in clients'[payload.userId] /\ readyState'[d] = "OPEN"
                       THEN <<Wire(WelcomeEvent)>>
                       ELSE <<>>]] >>
    /\ listening' = listening \cup {c}
    /\ UNCHANGED closeCode

\* Lines 362-414: attach the identity, register, send the welcome message,
\* set the pong/message/close/error handlers.
Accept(c, payload) ==
    /\ userId' = [userId EXCEPT ![c] = payload.userId]
    /\ role' = [role EXCEPT ![c] = payload.role]
    /\ isAlive' = [isAlive EXCEPT ![c] = "true"]
    /\ clients' = Register(clients, payload.userId, c)
    /\ readyState' = [readyState EXCEPT ![c] = "OPEN"]
    /\ calls' = << [method |-> "sendToClient", userId |-> Undefined,
                   event |-> WelcomeEvent,
                   sent |-> SendToClient(NoWrites, readyState', c, WelcomeEvent)] >>
    /\ listening' = listening \cup {c}
    /\ UNCHANGED closeCode

\* wss.on('connection', (ws, req) => ...) for a socket whose upgrade request
\* carries query parameter q and Authorization header h. The server has
\* added the socket to wss.clients before it emits 'connection'.
Admit(c, q, h) ==
    /\ NextToArrive(c)
    /\ wssClients' = wssClients \cup {c}
    /\ LET token == ExtractToken(q, h) IN
        IF ~Truthy(token)
        THEN Reject(c)
        ELSE LET payload == VerifyToken(token) IN
            IF payload = NullPayload
            THEN Reject(c)
            ELSE Accept(c, payload)
    /\ history' = NoteAdmission(history, c, q, h)
    /\ UNCHANGED <<destroyed, missed, http, db, requests>>

\* ------------------------------------------------------------------------
\* Socket events
\* ------------------------------------------------------------------------

\* Faulty variant of the pong handler: the pong is received but the flag is
\* left as the sweep set it.
PongUnheard(c) ==
    /\ c \in listening
    /\ readyState[c] = "OPEN"
    /\ missed' = [missed EXCEPT ![c] = 0]
    /\ calls' = <<>>
    /\ UNCHANGED <<clients, wssClients, readyState, userId, role, isAlive,
                   listening, destroyed, closeCode>>
    /\ UNCHANGED <<history, http, db, requests>>

\* ws.on('pong', () => { ws.isAlive = true; })
Pong(c) ==
    /\ c \in listening
    /\ readyState[c] = "OPEN"
    /\ isAlive' = [isAlive EXCEPT ![c] = "true"]
    /\ missed' = [missed EXCEPT ![c] = 0]
    /\ calls' = <<>>
    /\ UNCHANGED <<history, http, db, requests>>
    /\ UNCHANGED <<clients, wssClients, readyState, userId, role, listening,
                   destroyed, closeCode>>

\* What a client can send: text that is not JSON, the JSON value null, a
\* { type: 'subscribe', resource } object, any other JSON value.
InboundMessages == {"malformed", "null", "subscribe", "other"}

\* handleClientMessage(ws, data): reading data.type of null throws a
\* TypeError; a subscribe notice is logged; nothing else is looked at.
HandleClientMessage(data) ==
    CASE data = "null" -> "TypeError"
      [] data = "subscribe" -> "logged"
      [] OTHER -> "ignored"

\* The body of the message handler: JSON.parse and handleClientMessage
\* inside one try block whose catch only logs.
OnMessage(m) ==
    IF m = "malformed"
    THEN "caught SyntaxError"
    ELSE IF HandleClientMessage(m) = "TypeError"
         THEN "caught TypeError"
         ELSE HandleClientMessage(m)

\* Faulty variant of the message handler: a message that cannot be handled
\* closes the socket.
MessageClosingOnError(c, m) ==
    /\ c \in listening
    /\ readyState[c] = "OPEN"
    /\ calls' = << [method |-> "onMessage", userId |-> userId[c],
                   event |-> [type |-> m, userId |-> Undefined],
                   sent |-> NoWrites] >>
    /\ UNCHANGED <<history, http, db, requests>>
    /\ readyState' = [readyState EXCEPT ![c] =
                        IF OnMessage(m) \in {"caught SyntaxError", "caught TypeError"}
                        THEN "CLOSING" ELSE @]
    /\ UNCHANGED <<clients, wssClients, userId, role, isAlive, listening,
                   destroyed, closeCode, missed>>

\* Faulty variant of the message handler: any message counts as a sign of
\* life.
MessageRevives(c, m) ==
    /\ c \in listening
    /\ readyState[c] = "OPEN"
    /\ isAlive' = [isAlive EXCEPT ![c] = "true"]
    /\ calls' = << [method |-> "onMessage", userId |-> userId[c],
                   event |-> [type |-> m, userId |-> Undefined],
                   sent |-> NoWrites] >>
    /\ UNCHANGED <<history, http, db, requests>>
    /\ UNCHANGED <<clients, wssClients, readyState, userId, role,
                   listening, destroyed, closeCode, missed>>

\* ws.on('message', ...): message m arrives on an open socket. The handler
\* writes to the console and to nothing else; the step's record names the
\* handler, the socket's user and the message, and holds no send.
Message(c, m) ==
    /\ c \in listening
    /\ readyState[c] = "OPEN"
    /\ OnMessage(m) \in {"caught SyntaxError", "caught TypeError", "logged", "ignored"}
    /\ calls' = << [method |-> "onMessage", userId |-> userId[c],
                   event |-> [type |-> m, userId |-> Undefined],
                   sent |-> NoWrites] >>
    /\ UNCHANGED <<history, http, db, requests>>
    /\ UNCHANGED <<clients, wssClients, readyState, userId, role, isAlive,
                   listening, destroyed, closeCode, missed>>

\* ws.on('error', ...): the socket reports a stream error (an invalid
\* frame, a failed write). The library has started to close the socket
\* when it emits the event; the handler writes to the console and to
\* nothing else. The socket's 'close' event follows later.
ErrorEvent(c) ==
    /\ c \in listening
    /\ readyState[c] = "OPEN"
    /\ readyState' = [readyState EXCEPT ![c] = "CLOSING"]
    /\ calls' = << [method |-> "onError", userId |-> userId[c],
                   event |-> [type |-> "error", userId |-> Undefined],
                   sent |-> NoWrites] >>
    /\ UNCHANGED <<clients, wssClients, userId, role, isAlive, listening,
                   destroyed, closeCode, missed>>
    /\ UNCHANGED <<history, http, db, requests>>

\* The peer's close frame arrives: the socket answers it and is CLOSING
\* until the TCP connection ends. No handler of the manager runs.
PeerClosing(c) ==
    /\ readyState[c] = "OPEN"
    /\ readyState' = [readyState EXCEPT ![c] = "CLOSING"]
    /\ calls' = <<>>
    /\ UNCHANGED <<history, http, db, requests>>
    /\ UNCHANGED <<clients, wssClients, userId, role, isAlive, listening,
                   destroyed, closeCode, missed>>

\* Faulty variant of the close handler: the socket is deleted from its set
\* but an emptied set is left under its key.
CloseHandlerKeepKey(cl, c) ==
    IF userId[c] # Undefined /\ userId[c] \in DOMAIN cl
    THEN [cl EXCEPT ![userId[c]] = @ \ {c}]
    ELSE cl

\* Faulty variant of the close handler: the user's key is deleted with
\* whatever sockets its set still holds.
CloseHandlerDropKey(cl, c) ==
    IF userId[c] # Undefined
    THEN [k \in DOMAIN cl \ {userId[c]} |-> cl[k]]
    ELSE cl

\* ws.on('close', ...): the body of the handler, on the map cl.
CloseHandler(cl, c) ==
    IF userId[c] # Undefined
    THEN IF userId[c] \in DOMAIN cl
         THEN LET userClients == cl[userId[c]] \ {c} IN
              IF userClients = {}
              THEN [k \in DOMAIN cl \ {userId[c]} |-> cl[k]]
              ELSE [cl EXCEPT ![userId[c]] = userClients]
         ELSE cl
    ELSE cl

\* The socket's 'close' event: the TCP connection has ended (after a
\* closing handshake, after terminate(), or because the peer vanished).
\* The server's own listener takes the socket out of wss.clients, then the
\* manager's handler runs if it was set.
CloseEvent(c) ==
    /\ readyState[c] \in {"OPEN", "CLOSING"}
    /\ readyState' = [readyState EXCEPT ![c] = "CLOSED"]
    /\ wssClients' = wssClients \ {c}
    /\ destroyed' = destroyed \ {c}
    /\ clients' = IF c \in listening THEN CloseHandler(clients, c) ELSE clients
    /\ calls' = <<>>
    /\ UNCHANGED <<history, http, db, requests>>
    /\ UNCHANGED <<userId, role, isAlive, listening, closeCode, missed>>

\* ------------------------------------------------------------------------
\* Heartbeat
\* ------------------------------------------------------------------------

\* Faulty variant of the heartbeat: every socket is marked and pinged, none
\* is ever terminated.
SweepNeverTerminates ==
    /\ wssClients # {}
    /\ destroyed = {}
    /\ isAlive' = [c \in Conns |-> IF c \in wssClients THEN "false" ELSE isAlive[c]]
    /\ missed' = [c \in Conns |-> IF c \in wssClients THEN missed[c] + 1 ELSE missed[c]]
    /\ calls' = <<>>
    /\ UNCHANGED <<history, http, db, requests>>
    /\ UNCHANGED <<clients, wssClients, readyState, userId, role, listening,
                   destroyed, closeCode>>

\* Faulty variant of the heartbeat: every socket is terminated, whatever
\* its flag.
SweepTerminatesAll ==
    /\ wssClients # {}
    /\ destroyed = {}
    /\ destroyed' = wssClients
    /\ readyState' = [c \in Conns |-> IF c \in wssClients THEN "CLOSING" ELSE readyState[c]]
    /\ missed' = [c \in Conns |-> IF c \in wssClients THEN missed[c] + 1 ELSE missed[c]]
    /\ calls' = <<>>
    /\ UNCHANGED <<clients, wssClients, userId, role, isAlive, listening, closeCode>>
    /\ UNCHANGED <<history, http, db, requests>>

\* One tick of heartbeatInterval: for every socket of wss.clients,
\* terminate() it if isAlive === false, else set isAlive = false and ping.
\* terminate() destroys the TCP socket; the 'close' event follows in a later
\* callback of the same event-loop round, long before the next tick (the
\* interval is 30 s), so no tick finds a destroyed socket still unclosed.
\* A tick over an empty wss.clients does nothing and is left out.
Sweep ==
    /\ wssClients # {}
    /\ destroyed = {}
    /\ LET dead == {c \in wssClients : isAlive[c] = "false"} IN
        /\ destroyed' = destroyed \cup dead
        /\ readyState' = [c \in Conns |-> IF c \in dead THEN "CLOSING" ELSE readyState[c]]
        /\ isAlive' = [c \in Conns |-> IF c \in wssClients \ dead THEN "false" ELSE isAlive[c]]
    /\ missed' = [c \in Conns |-> IF c \in wssClients THEN missed[c] + 1 ELSE missed[c]]
    /\ calls' = <<>>
    /\ UNCHANGED <<history, http, db, requests>>
    /\ UNCHANGED <<clients, wssClients, userId, role, listening, closeCode>>

\* ------------------------------------------------------------------------
\* Broadcasting methods
\* ------------------------------------------------------------------------

\* userClients.forEach((ws) => this.sendToClient(ws, event)): a Set is
\* visited once per member.
RECURSIVE SendToEach(_, _, _)
SendToEach(w, userClients, event) ==
    IF userClients = {}
    THEN w
    ELSE LET ws == CHOOSE x \in userClients : TRUE IN
         SendToEach(SendToClient(w, readyState, ws, event), userClients \ {ws}, event)

\* userClients.forEach((ws) => { if (ws.role === 'admin' ||
\* ws.role === 'super_admin') this.sendToClient(ws, event); })
RECURSIVE SendToEachAdmin(_, _, _)
SendToEachAdmin(w, userClients, event) ==
    IF userClients = {}
    THEN w
    ELSE LET ws == CHOOSE x \in userClients : TRUE IN
         SendToEachAdmin(
             IF role[ws] = "admin" \/ role[ws] = "super_admin"
             THEN SendToClient(w, readyState, ws, event)
             ELSE w,
             userClients \ {ws}, event)

\* this.clients.forEach((userClients) => ...) of broadcastToAll.
RECURSIVE ForEachUserAll(_, _, _)
ForEachUserAll(w, keys, event) ==
    IF keys = {}
    THEN w
    ELSE LET k == CHOOSE x \in keys : TRUE IN
         ForEachUserAll(SendToEach(w, clients[k], event), keys \ {k}, event)

\* this.clients.forEach((userClients) => ...) of broadcastToAdmins.
RECURSIVE ForEachUserAdmins(_, _, _)
ForEachUserAdmins(w, keys, event) ==
    IF keys = {}
    THEN w
    ELSE LET k == CHOOSE x \in keys : TRUE IN
         ForEachUserAdmins(SendToEachAdmin(w, clients[k], event), keys \ {k}, event)

\* A router call and what it wrote to each socket.
Call(method, uid, event, sent) ==
    [method |-> method, userId |-> uid, event |-> event, sent |-> sent]

\* Faulty variant of broadcastToUser: the user's set is not looked up, the
\* event goes to every registered socket.
BroadcastToUserEveryone(uid, event) ==
    Call("broadcastToUser", uid, event,
         ForEachUserAll(NoWrites, DOMAIN clients, event))

\* Faulty variant of broadcastToUser: an event for a user without sockets
\* is not dropped but written to every registered socket.
BroadcastToUserOrEveryone(uid, event) ==
    Call("broadcastToUser", uid, event,
         IF uid \in DOMAIN clients
         THEN SendToEach(NoWrites, clients[uid], event)
         ELSE ForEachUserAll(NoWrites, DOMAIN clients, event))

\* broadcastToUser(userId, event)
BroadcastToUser(uid, event) ==
    Call("broadcastToUser", uid, event,
         IF uid \in DOMAIN clients
         THEN SendToEach(NoWrites, clients[uid], event)
         ELSE NoWrites)

\* Faulty variant of broadcastToAll: only the sockets with an elevated role
\* are written to.
BroadcastToAllElevated(event) ==
    Call("broadcastToAll", Undefined, event,
         ForEachUserAdmins(NoWrites, DOMAIN clients, event))

\* broadcastToAll(event)
BroadcastToAll(event) ==
    Call("broadcastToAll", Undefined, event,
         ForEachUserAll(NoWrites, DOMAIN clients, event))

\* Faulty variant of broadcastToAdmins: the role test is missing.
BroadcastToAdminsUnfiltered(event) ==
    Call("broadcastToAdmins", Undefined, event,
         ForEachUserAll(NoWrites, DOMAIN clients, event))

\* broadcastToAdmins(event)
BroadcastToAdmins(event) ==
    Call("broadcastToAdmins", Undefined, event,
         ForEachUserAdmins(NoWrites, DOMAIN clients, event))

\* broadcastToResourceUsers(userIds, event): one broadcastToUser call per
\* element of the array, all with the same event.
BroadcastToResourceUsers(userIds, event) ==
    [i \in 1..Len(userIds) |-> BroadcastToUser(userIds[i], event)]

\* What a broadcast leaves alone: all of the manager's and the sockets'
\* state. The router calls a helper makes are the step's sends.
managerVars == <<clients, wssClients, readyState, userId, role, isAlive,
                 listening, destroyed, closeCode, missed>>

\* A helper has made its router calls: nothing but the step's record of
\* them (and the observer's) changes.
Routed ==
    /\ history.on => history.serial < MaxCalls
    /\ UNCHANGED managerVars
    /\ history' = NoteCalls(history, calls')
    /\ UNCHANGED <<http, db, requests>>

\* ------------------------------------------------------------------------
\* Event helper functions
\* ------------------------------------------------------------------------

BroadcastDeviceOnline ==
    /\ calls' = <<BroadcastToAll(CreateEvent("device:online", Undefined))>>
    /\ Routed

BroadcastDeviceOffline ==
    /\ calls' = <<BroadcastToAll(CreateEvent("device:offline", Undefined))>>
    /\ Routed

BroadcastDeviceError ==
    /\ calls' = <<BroadcastToAdmins(CreateEvent("device:error", Undefined))>>
    /\ Routed

BroadcastLampToggled(uid) ==
    /\ calls' = <<BroadcastToAll(CreateEvent("lamp:toggled", uid))>>
    /\ Routed

BroadcastLampBrightnessChanged ==
    /\ calls' = <<BroadcastToAll(CreateEvent("lamp:brightness_changed", Undefined))>>
    /\ Routed

\* The router calls of broadcastPermissionGranted(userId, ...).
PermissionGrantedCalls(uid) ==
    <<BroadcastToUser(uid, CreateEvent("permission:granted", uid))>>

BroadcastPermissionGranted(uid) ==
    /\ calls' = PermissionGrantedCalls(uid)
    /\ Routed

\* The router calls of broadcastPermissionRevoked(userId, permissionId).
PermissionRevokedCalls(uid) ==
    <<BroadcastToUser(uid, CreateEvent("permission:revoked", uid))>>

BroadcastPermissionRevoked(uid) ==
    /\ calls' = PermissionRevokedCalls(uid)
    /\ Routed

\* The router calls of broadcastUserCreated(user).
UserCreatedCalls ==
    <<BroadcastToAdmins(CreateEvent("user:created", Undefined))>>

BroadcastUserCreated ==
    /\ calls' = UserCreatedCalls
    /\ Routed

BroadcastUserUpdated(uid) ==
    /\ calls' = <<BroadcastToAdmins(CreateEvent("user:updated", Undefined)),
                  BroadcastToUser(uid, CreateEvent("user:updated", uid))>>
    /\ Routed

BroadcastUserDeleted ==
    /\ calls' = <<BroadcastToAdmins(CreateEvent("user:deleted", Undefined))>>
    /\ Routed

BroadcastAlertCreated ==
    /\ calls' = <<BroadcastToAdmins(CreateEvent("alert:created", Undefined))>>
    /\ Routed

BroadcastAlertResolved ==
    /\ calls' = <<BroadcastToAdmins(CreateEvent("alert:resolved", Undefined))>>
    /\ Routed

BroadcastMaintenanceMode ==
    /\ calls' = <<BroadcastToAll(CreateEvent("system:maintenance_mode", Undefined))>>
    /\ Routed

BroadcastConfigUpdated ==
    /\ calls' = <<BroadcastToAdmins(CreateEvent("system:config_updated", Undefined))>>
    /\ Routed

\* Arrays of at most MaxUserIds user ids (repetitions allowed).
UserIdArrays == UNION {[1..n -> Subjects] : n \in 0..MaxUserIds}

\* Events a caller of broadcastToResourceUsers can build with createEvent
\* for a change of a shared resource: addressed to nobody, or to the user
\* who made the change.
ResourceEvents ==
    {CreateEvent("lamp:toggled", u) : u \in {Undefined, "u1"}}

\* A direct call of the public method broadcastToResourceUsers.
CallBroadcastToResourceUsers(userIds, event) ==
    /\ calls' = BroadcastToResourceUsers(userIds, event)
    /\ Routed

\* ------------------------------------------------------------------------
\* HTTP authentication middleware
\* ------------------------------------------------------------------------

\* The Authorization header of an HTTP request: absent, or a string with
\* or without the 'Bearer ' prefix in front of the rest.
HttpHeaderValues ==
    {NoHeader} \cup [present : {TRUE}, bearer : BOOLEAN, rest : TokenStrings]

\* extractBearerToken(authHeader): null unless the header starts with
\* 'Bearer ', else what follows the prefix.
ExtractBearerToken(h) ==
    IF ~h.present \/ ~h.bearer THEN Undefined ELSE h.rest

\* const roleHierarchy = { viewer: 1, user: 2, admin: 3, super_admin: 4 }
RoleHierarchy ==
    [r \in Roles |->
        CASE r = "viewer" -> 1
          [] r = "user" -> 2
          [] r = "admin" -> 3
          [] r = "super_admin" -> 4]

\* Faulty variant of hasRole: the required role itself is not enough.
HasRoleStrict(userRole, requiredRole) ==
    RoleHierarchy[userRole] > RoleHierarchy[requiredRole]

\* hasRole(userRole, requiredRole)
HasRole(userRole, requiredRole) ==
    RoleHierarchy[userRole] >= RoleHierarchy[requiredRole]

\* options?.requiredRole of withAuth: a role, or undefined.
RequiredRoles == Roles \cup {Undefined}

\* The function withAuth(handler, options) returns, applied to a request
\* with Authorization header h: the response, whether the handler was
\* invoked and the user it was given. The handler's own response stands
\* as status 200.
WithAuthResponse(h, requiredRole) ==
    LET token == ExtractBearerToken(h) IN
    IF ~Truthy(token)
    THEN [status |-> 401, error |-> "Authentication required",
          handler |-> FALSE, user |-> NullPayload]
    ELSE LET payload == VerifyToken(token) IN
         IF payload = NullPayload
         THEN [status |-> 401, error |-> "Invalid or expired token",
               handler |-> FALSE, user |-> NullPayload]
         ELSE IF requiredRole # Undefined /\ ~HasRole(payload.role, requiredRole)
              THEN [status |-> 403, error |-> "Insufficient permissions",
                    handler |-> FALSE, user |-> NullPayload]
              ELSE [status |-> 200, error |-> "",
                    handler |-> TRUE, user |-> payload]

\* A request reaches a route wrapped by withAuth(handler, options).
WithAuth(h, requiredRole) ==
    /\ http' = [wrapper |-> "withAuth", header |-> h, requiredRole |-> requiredRole,
                response |-> WithAuthResponse(h, requiredRole)]
    /\ UNCHANGED <<managerVars, calls, history, db, requests>>

\* withAdminAuth(handler): withAuth(handler, { requiredRole: 'admin' })
WithAdminAuth(h) ==
    /\ http' = [wrapper |-> "withAdminAuth", header |-> h, requiredRole |-> "admin",
                response |-> WithAuthResponse(h, "admin")]
    /\ UNCHANGED <<managerVars, calls, history, db, requests>>

\* withSuperAdminAuth(handler): withAuth(handler, { requiredRole: 'super_admin' })
WithSuperAdminAuth(h) ==
    /\ http' = [wrapper |-> "withSuperAdminAuth", header |-> h,
                requiredRole |-> "super_admin",
                response |-> WithAuthResponse(h, "super_admin")]
    /\ UNCHANGED <<managerVars, calls, history, db, requests>>

\* ------------------------------------------------------------------------
\* Admin routes: POST /users, POST and DELETE /permissions. Each is wrapped
\* by withAdminAuth; the actions start where the wrapper has invoked the
\* handler and the body has been read. A handler runs without interruption
\* up to its next await. The audit_logs rows it inserts are read by no
\* route and are left out.
\* ------------------------------------------------------------------------

\* Requests the routes receive before the model stops taking new ones.
MaxRequests == 3

\* uuidv4(): an id no row has had before.
Uuid(d) == ToString(d.uuids + 1)

\* canManageUser(actorRole, targetRole)
CanManageUser(actorRole, targetRole) ==
    IF actorRole = "super_admin"
    THEN TRUE
    ELSE IF actorRole = "admin"
         THEN targetRole = "user" \/ targetRole = "viewer"
         ELSE FALSE

\* Roles of the users withAdminAuth lets through.
ActorRoles == {"admin", "super_admin"}

\* Usernames and e-mail addresses of the bodies: taken by a seeded user,
\* or free.
Usernames == {"admin", "amy"}

Emails == {"admin@x", "amy@x"}

\* Bodies of POST /users: well-formed ones, and one with fields missing.
UserBodies ==
    [username : Usernames, email : Emails]
        \cup {[username |-> Undefined, email |-> Undefined]}

\* validateRequiredFields, validateUsername, validateEmail and
\* validatePassword all pass.
ValidUserBody(body) == Truthy(body.username) /\ Truthy(body.email)

\* The rows of the lamps and controllers tables, as type:id.
Resources == {"lamp:l1", "controller:c1"}

\* body.resourceType and body.resourceId of a grant: an existing lamp, an
\* existing controller, a lamp that does not exist.
ResourceRefs == Resources \cup {"lamp:l9"}

\* body.userId of a grant: a user of the table, or no user.
UserRefs == Subjects \cup {"u9"}

\* Bodies of POST /permissions: well-formed ones, and one with fields
\* missing.
GrantBodies ==
    [userId : UserRefs, resource : ResourceRefs]
        \cup {[userId |-> Undefined, resource |-> Undefined]}

\* validateRequiredFields passes.
ValidGrantBody(body) == Truthy(body.userId) /\ Truthy(body.resource)

\* The id parameter of a revoke: absent, or an id a permission has, had
\* or will have.
PermissionRefs == {ToString(n) : n \in 1..MaxRequests} \cup {Undefined}

\* sqlite.prepare('INSERT INTO users ...').run(...): sql.js throws when
\* a UNIQUE column (username, email) would hold a value twice.
InsertUserThrows(d, username, email) ==
    \E row \in d.users : row.username = username \/ row.email = email

\* POST /api/v2/admin/users up to `await hashPassword(...)`: validation
\* (400), canManageUser (403), the two duplicate checks (409).
CreateUserStart(body, actorRole, targetRole) ==
    /\ Len(requests) < MaxRequests
    /\ LET status ==
            IF ~ValidUserBody(body) THEN 400
            ELSE IF ~CanManageUser(actorRole, targetRole) THEN 403
            ELSE IF \E row \in db.users : row.username = body.username THEN 409
            ELSE IF \E row \in db.users : row.email = body.email THEN 409
            ELSE 0
       IN requests' = Append(requests,
            [op |-> "createUser", username |-> body.username, email |-> body.email,
             pc |-> IF status = 0 THEN "hashPassword" ELSE "done",
             status |-> status])
    /\ calls' = <<>>
    /\ UNCHANGED <<managerVars, history, http, db>>

\* The rest of the handler, once hashPassword has resolved: the INSERT,
\* broadcastUserCreated and the 200 response; a throwing INSERT is caught
\* and answered 500.
CreateUserFinish(i) ==
    /\ i \in DOMAIN requests
    /\ requests[i].op = "createUser"
    /\ requests[i].pc = "hashPassword"
    /\ IF InsertUserThrows(db, requests[i].username, requests[i].email)
       THEN /\ requests' = [requests EXCEPT ![i].pc = "done", ![i].status = 500]
            /\ calls' = <<>>
            /\ UNCHANGED db
       ELSE /\ db' = [db EXCEPT
                        !.users = @ \cup {[id |-> Uuid(db),
                                           username |-> requests[i].username,
                                           email |-> requests[i].email]},
                        !.uuids = @ + 1]
            /\ calls' = UserCreatedCalls
            /\ requests' = [requests EXCEPT ![i].pc = "done", ![i].status = 200]
    /\ UNCHANGED <<managerVars, history, http>>

\* Faulty variant of the grant: the check for an existing permission is
\* missing.
GrantPermissionUnchecked(body) ==
    /\ Len(requests) < MaxRequests
    /\ LET status ==
            IF ~ValidGrantBody(body) THEN 400
            ELSE IF ~\E row \in db.users : row.id = body.userId THEN 404
            ELSE IF body.resource \notin Resources THEN 404
            ELSE 200
       IN /\ requests' = Append(requests,
                [op |-> "grant", userId |-> body.userId, resource |-> body.resource,
                 id |-> IF status = 200 THEN Uuid(db) ELSE Undefined,
                 pc |-> "done", status |-> status])
          /\ IF status = 200
             THEN /\ db' = [db EXCEPT
                              !.permissions = @ \cup {[id |-> Uuid(db),
                                                       userId |-> body.userId,
                                                       resource |-> body.resource]},
                              !.uuids = @ + 1]
                  /\ calls' = PermissionGrantedCalls(body.userId)
             ELSE /\ calls' = <<>>
                  /\ UNCHANGED db
    /\ UNCHANGED <<managerVars, history, http>>

\* POST /api/v2/admin/permissions: validation (400), user and resource
\* lookups (404), check for an active permission of the same user and
\* resource (409), INSERT, broadcastPermissionGranted, 200. No await
\* between the first lookup and the response. Every row has is_active = 1:
\* no route updates it.
GrantPermission(body) ==
    /\ Len(requests) < MaxRequests
    /\ LET status ==
            IF ~ValidGrantBody(body) THEN 400
            ELSE IF ~\E row \in db.users : row.id = body.userId THEN 404
            ELSE IF body.resource \notin Resources THEN 404
            ELSE IF \E row \in db.permissions :
                        row.userId = body.userId /\ row.resource = body.resource
                 THEN 409
            ELSE 200
       IN /\ requests' = Append(requests,
                [op |-> "grant", userId |-> body.userId, resource |-> body.resource,
                 id |-> IF status = 200 THEN Uuid(db) ELSE Undefined,
                 pc |-> "done", status |-> status])
          /\ IF status = 200
             THEN /\ db' = [db EXCEPT
                              !.permissions = @ \cup {[id |-> Uuid(db),
                                                       userId |-> body.userId,
                                                       resource |-> body.resource]},
                              !.uuids = @ + 1]
                  /\ calls' = PermissionGrantedCalls(body.userId)
             ELSE /\ calls' = <<>>
                  /\ UNCHANGED db
    /\ UNCHANGED <<managerVars, history, http>>

\* Faulty variant of the first part of the revoke: the row is left in the
\* table.
RevokeStartKeepsRow(id) ==
    /\ Len(requests) < MaxRequests
    /\ LET found == {row \in db.permissions : row.id = id} IN
        requests' = Append(requests,
            [op |-> "revoke", id |-> id,
             userId |-> IF found = {} THEN Undefined
                        ELSE (CHOOSE row \in found : TRUE).userId,
             pc |-> IF found = {} THEN "done" ELSE "import",
             status |-> IF found = {} THEN 404 ELSE 0])
    /\ calls' = <<>>
    /\ UNCHANGED <<managerVars, history, http, db>>

\* DELETE /api/v2/admin/permissions?id=... up to `await import(...)`:
\* missing id (400), lookup (404), DELETE of the row.
RevokeStart(id) ==
    /\ Len(requests) < MaxRequests
    /\ LET found == {row \in db.permissions : row.id = id}
           status == IF ~Truthy(id) THEN 400
                     ELSE IF found = {} THEN 404
                     ELSE 0
       IN /\ requests' = Append(requests,
                [op |-> "revoke", id |-> id,
                 userId |-> IF status = 0
                            THEN (CHOOSE row \in found : TRUE).userId
                            ELSE Undefined,
                 pc |-> IF status = 0 THEN "import" ELSE "done",
                 status |-> status])
          /\ db' = IF status = 0
                   THEN [db EXCEPT !.permissions = @ \ found]
                   ELSE db
    /\ calls' = <<>>
    /\ UNCHANGED <<managerVars, history, http>>

\* The rest of the handler, once the import has resolved:
\* broadcastPermissionRevoked(permission.user_id, permissionId) and 200.
RevokeFinish(i) ==
    /\ i \in DOMAIN requests
    /\ requests[i].op = "revoke"
    /\ requests[i].pc = "import"
    /\ calls' = PermissionRevokedCalls(requests[i].userId)
    /\ requests' = [requests EXCEPT ![i].pc = "done", ![i].status = 200]
    /\ UNCHANGED <<managerVars, history, http, db>>

\* ------------------------------------------------------------------------
\* Specifications
\* ------------------------------------------------------------------------

\* The callbacks of the sockets and of the heartbeat timer.
Lifecycle ==
    \/ \E c \in Conns, q \in QueryValues, h \in HeaderValues : Admit(c, q, h)
    \/ \E c \in Conns : Pong(c)
    \/ \E c \in Conns : PeerClosing(c)
    \/ \E c \in Conns : CloseEvent(c)
    \/ Sweep

\* The calls request handlers make into the event layer.
Routing ==
    \/ BroadcastDeviceOnline
    \/ BroadcastDeviceOffline
    \/ BroadcastDeviceError
    \/ \E u \in Subjects : BroadcastLampToggled(u)
    \/ BroadcastLampBrightnessChanged
    \/ \E u \in Subjects : BroadcastPermissionGranted(u)
    \/ \E u \in Subjects : BroadcastPermissionRevoked(u)
    \/ BroadcastUserCreated
    \/ \E u \in Subjects : BroadcastUserUpdated(u)
    \/ BroadcastUserDeleted
    \/ BroadcastAlertCreated
    \/ BroadcastAlertResolved
    \/ BroadcastMaintenanceMode
    \/ BroadcastConfigUpdated
    \/ \E ids \in UserIdArrays, e \in ResourceEvents : CallBroadcastToResourceUsers(ids, e)

Next == Lifecycle

\* Registry and liveness: every socket callback and the heartbeat.
Spec == Init /\ [][Next]_vars

\* A destroyed TCP socket emits 'close': Node runs the close callback of
\* every handle that was destroyed.
Teardown == \E c \in destroyed : CloseEvent(c)

LiveSpec == Spec /\ WF_vars(Teardown)

\* Admission and closing of sockets, without the heartbeat.
Membership ==
    \/ \E c \in Conns, q \in QueryValues, h \in HeaderValues : Admit(c, q, h)
    \/ \E c \in Conns : PeerClosing(c)
    \/ \E c \in Conns : CloseEvent(c)

RouteNext == Membership \/ Routing

\* Routing: the broadcast helpers against a registry that sockets join and
\* leave. The heartbeat changes nothing a send reads but readyState, which
\* PeerClosing and CloseEvent change in the same way.
RouteSpec == Init /\ [][RouteNext]_vars

\* Upgrade requests with every combination of query parameter and header,
\* watched by an observer who notes the credentials of each.
HandshakeNext ==
    \/ \E c \in Conns, q \in QueryValues, h \in HeaderValues : Admit(c, q, h)
    \/ \E c \in Conns : CloseEvent(c)

HandshakeSpec == RecordingInit /\ [][HandshakeNext]_vars

\* Tokens of the clients that connect while the observer numbers the
\* router calls: an admin and a viewer.
OrderTokens == {"jwt_u1_admin", "jwt_u2_viewer"}

\* A sequence of at most MaxCalls router calls, of each of the three kinds
\* and of the helper that makes two, interleaved with sockets that join
\* and leave; the observer numbers the calls and notes what each socket is
\* given.
OrderNext ==
    \/ \E c \in Conns, q \in OrderTokens : Admit(c, q, NoHeader)
    \/ \E c \in Conns : CloseEvent(c)
    \/ BroadcastDeviceOnline
    \/ BroadcastDeviceError
    \/ \E u \in Subjects : BroadcastPermissionGranted(u)
    \/ \E u \in Subjects : BroadcastUserUpdated(u)

OrderSpec == RecordingInit /\ [][OrderNext]_vars

\* HTTP requests with every Authorization header against the three
\* wrappers, withAuth with every option.
AuthNext ==
    \/ \E h \in HttpHeaderValues, r \in RequiredRoles : WithAuth(h, r)
    \/ \E h \in HttpHeaderValues : WithAdminAuth(h)
    \/ \E h \in HttpHeaderValues : WithSuperAdminAuth(h)

AuthSpec == Init /\ [][AuthNext]_vars

\* Tokens of the clients that connect while the heartbeat runs: an admin,
\* a viewer, and one that is rejected.
BeatTokens == {"jwt_u1_admin", "jwt_u2_viewer", "garbage"}

\* The heartbeat and router calls of each kind together: a call can be
\* made after a tick has terminated a socket and before that socket's
\* close event.
EvictNext ==
    \/ \E c \in Conns, q \in BeatTokens : Admit(c, q, NoHeader)
    \/ \E c \in Conns : Pong(c)
    \/ \E c \in Conns : PeerClosing(c)
    \/ \E c \in Conns : CloseEvent(c)
    \/ Sweep
    \/ BroadcastDeviceOnline
    \/ BroadcastDeviceError
    \/ \E u \in Subjects : BroadcastPermissionGranted(u)

EvictSpec == Init /\ [][EvictNext]_vars

\* The heartbeat against clients that send messages.
ChattyNext ==
    \/ \E c \in Conns, q \in BeatTokens : Admit(c, q, NoHeader)
    \/ \E c \in Conns : Pong(c)
    \/ \E c \in Conns, m \in InboundMessages : Message(c, m)
    \/ \E c \in Conns : CloseEvent(c)
    \/ Sweep

ChattySpec == Init /\ [][ChattyNext]_vars

\* The admin routes, their requests interleaved at the awaits.
ApiNext ==
    \/ \E body \in UserBodies, a \in ActorRoles, t \in Roles :
          CreateUserStart(body, a, t)
    \/ \E i \in 1..MaxRequests : CreateUserFinish(i)
    \/ \E body \in GrantBodies : GrantPermission(body)
    \/ \E id \in PermissionRefs : RevokeStart(id)
    \/ \E i \in 1..MaxRequests : RevokeFinish(i)

ApiSpec == Init /\ [][ApiNext]_vars

\* Inbound client messages and stream errors against a registry that
\* sockets join and leave.
InboundNext ==
    \/ Membership
    \/ \E c \in Conns, m \in InboundMessages : Message(c, m)
    \/ \E c \in Conns : ErrorEvent(c)

InboundSpec == Init /\ [][InboundNext]_vars

\* ------------------------------------------------------------------------
\* Properties
\* ------------------------------------------------------------------------

\* Sockets the 'connection' handler accepted whose 'close' handler has not
\* run yet.
NotYetRemoved == {c \in listening : readyState[c] # "CLOSED"}

\* C1: getConnectedUserIds() lists a user id exactly when some socket
\* admitted for that user has not been removed by its close handler yet.
C1_ConnectedIffLiveConnection ==
    \A u \in Subjects :
        u \in GetConnectedUserIds <=> \E c \in NotYetRemoved : userId[c] = u

\* Two sockets of one user were admitted, one has been removed, the other
\* has not, and the user is still listed.
C1_Witness ==
    \E c, d \in listening :
        /\ c # d
        /\ userId[c] = userId[d]
        /\ readyState[c] = "CLOSED"
        /\ readyState[d] # "CLOSED"
        /\ userId[d] \in GetConnectedUserIds

\* C5: every key of the clients map holds a non-empty set, and only
\* sockets of that user.
C5_NoEmptySetUnderKey ==
    \A u \in DOMAIN clients :
        /\ clients[u] # {}
        /\ \A c \in clients[u] : userId[c] = u

\* The last socket of a user has been removed while another user is still
\* registered: the first user's key is gone.
C5_Witness ==
    \E c \in listening :
        /\ readyState[c] = "CLOSED"
        /\ userId[c] \notin DOMAIN clients
        /\ DOMAIN clients # {}

\* The router calls of the given method among those of the step just taken.
\* The registry and the ready states of the state are those the calls ran
\* against: a step that sends changes neither after its sends.
CallsOf(method) == {i \in DOMAIN calls : calls[i].method = method}

\* C2: a broadcastToUser(S, E) call writes E exactly once to every open
\* socket registered under S and nothing to any other socket.
C2_RouteToSubjectExact ==
    \A i \in CallsOf("broadcastToUser") :
        \A c \in Conns :
            calls[i].sent[c] =
                IF /\ calls[i].userId \in DOMAIN clients
                   /\ c \in clients[calls[i].userId]
                   /\ readyState[c] = "OPEN"
                THEN <<Wire(calls[i].event)>>
                ELSE <<>>

\* A call for a user with two open sockets, while an open socket of another
\* user is registered: the two receive the event, the third nothing.
C2_Witness ==
    \E i \in CallsOf("broadcastToUser") :
        \E c, d, e \in Registered :
            /\ c # d
            /\ userId[c] = calls[i].userId
            /\ userId[d] = calls[i].userId
            /\ userId[e] # calls[i].userId
            /\ readyState[e] = "OPEN"
            /\ Len(calls[i].sent[c]) = 1
            /\ Len(calls[i].sent[d]) = 1
            /\ calls[i].sent[e] = <<>>

ElevatedRoles == {"admin", "super_admin"}

C3_DeliveredToElevatedOnly ==
    \A i \in CallsOf("broadcastToAdmins") :
        \A c \in Conns :
            calls[i].sent[c] =
                IF /\ c \in Registered
                   /\ readyState[c] = "OPEN"
                   /\ role[c] \in ElevatedRoles
                THEN <<Wire(calls[i].event)>>
                ELSE <<>>

C3_RoleFixedWhileRegistered ==
    \A c \in Conns : (c \in Registered /\ c \in Registered') => role'[c] = role[c]

\* C3: a broadcastToAdmins(E) call writes E to every open registered socket
\* whose role is admin or super_admin and to no socket whose role is user
\* or viewer; the role of a socket is the one its token carried at
\* admission and no step changes it while the socket stays registered.
C3_RouteToElevatedRoles ==
    /\ []C3_DeliveredToElevatedOnly
    /\ [][C3_RoleFixedWhileRegistered]_vars

\* A call made while an open admin socket and an open user socket are
\* registered: only the admin socket is written to.
C3_Witness ==
    \E i \in CallsOf("broadcastToAdmins") :
        \E c, d \in Registered :
            /\ role[c] = "admin"
            /\ role[d] = "user"
            /\ readyState[d] = "OPEN"
            /\ Len(calls[i].sent[c]) = 1
            /\ calls[i].sent[d] = <<>>

\* The request carries no credential, or one jwt.verify does not accept:
\* not signed by this server, or expired.
BadCredential(q, h) ==
    LET token == ExtractToken(q, h) IN
        \/ token = Undefined
        \/ token = ""
        \/ token \notin DOMAIN Signed
        \/ Signed[token].expired

C4_RejectionStep ==
    \A c \in Conns :
        (readyState[c] = "ABSENT" /\ readyState'[c] # "ABSENT") =>
            \A q \in QueryValues, h \in HeaderValues :
                (BadCredential(q, h) /\ Admit(c, q, h)) =>
                    /\ clients' = clients
                    /\ closeCode'[c] = PolicyViolation
                    /\ readyState'[c] = "CLOSING"
                    /\ c \notin listening'

\* Sockets closed by the server for a policy violation.
Rejected == {c \in Conns : closeCode[c] = PolicyViolation}

\* C4: an admission attempt with a missing, invalid or expired credential
\* closes the socket with code 1008 and leaves the registry as it was, and
\* a socket so rejected is never a member of the registry.
C4_RejectedNeverRegistered ==
    /\ [][C4_RejectionStep]_vars
    /\ [](\A c \in Rejected : c \notin Registered /\ userId[c] = Undefined)

\* A socket has been rejected while another user's socket is registered.
C4_Witness ==
    \E c \in Rejected :
        /\ readyState[c] = "CLOSING"
        /\ c \notin Registered
        /\ Registered # {}

\* A socket that has missed two pings in a row has been terminated by the
\* second tick and never sees a third; once removed, its user is listed
\* only if another socket of that user is left.
C6_TerminatedBySecondSweep ==
    \A c \in listening :
        /\ missed[c] <= 2
        /\ missed[c] = 2 =>
            /\ c \in Registered => c \in destroyed
            /\ c \notin Registered =>
                (userId[c] \in GetConnectedUserIds
                    <=> \E d \in NotYetRemoved \ {c} : userId[d] = userId[c])

C6_EventuallyRemoved ==
    \A c \in Conns : (c \in listening /\ missed[c] = 2) ~> (c \notin Registered)

\* C6: a registered socket that answers no ping is terminated by the
\* second heartbeat tick after its admission (or after its last pong) and
\* leaves the registry when the teardown of its destroyed TCP socket
\* completes, before any third tick; if it was its user's only socket the
\* user is no longer listed by getConnectedUserIds() afterwards.
C6_EvictedWithinTwoSweeps ==
    /\ []C6_TerminatedBySecondSweep
    /\ C6_EventuallyRemoved

\* A socket that missed two pings has been evicted and, being the only
\* socket of its user, the user is no longer listed.
C6_Witness ==
    \E c \in listening :
        /\ missed[c] = 2
        /\ readyState[c] = "CLOSED"
        /\ c \notin Registered
        /\ userId[c] \notin GetConnectedUserIds

\* C7: running the close handler a second time for a socket leaves the map
\* as the first run left it; for a socket that is not registered it
\* changes nothing; and it never unregisters another socket.
C7_RemoveIdempotent ==
    \A c \in Conns :
        LET once == CloseHandler(clients, c) IN
            /\ CloseHandler(once, c) = once
            /\ c \notin Registered => once = clients
            /\ \A d \in Registered \ {c} :
                userId[d] \in DOMAIN once /\ d \in once[userId[d]]

\* The close handler has run for a socket whose user has another socket
\* registered.
C7_Witness ==
    \E c \in listening :
        /\ readyState[c] = "CLOSED"
        /\ \E d \in Registered : d # c /\ userId[d] = userId[c]

\* C8: every message a broadcastToUser(S, E) call writes, the calls made by
\* broadcastToResourceUsers included, carries userId = S.
C8_WireUserIdIsSubject ==
    \A i \in CallsOf("broadcastToUser") :
        \A c \in Conns :
            \A k \in DOMAIN calls[i].sent[c] :
                /\ HasUserId(calls[i].sent[c][k])
                /\ calls[i].sent[c][k].userId = calls[i].userId

\* C9: no socket whose role is user or viewer is ever written a message of
\* a type the API documentation lists as broadcast to admins only.
C9_NoAdminOnlyTypeToUsers ==
    \A i \in DOMAIN calls :
        \A c \in Conns :
            role[c] \in {"user", "viewer"} =>
                \A k \in DOMAIN calls[i].sent[c] :
                    calls[i].sent[c][k].type \notin AdminOnlyTypes

C10_AdmissionStep ==
    \A c \in Conns :
        (c \notin listening /\ c \in listening') =>
            /\ Len(calls') = 1
            /\ calls'[1].sent =
                [d \in Conns |-> IF d = c THEN <<Wire(WelcomeEvent)>> ELSE <<>>]

\* C10: the step that admits a socket writes exactly one message, the
\* welcome message, to that socket and nothing to any other socket.
C10_OneAcknowledgementToNewOnly == [][C10_AdmissionStep]_vars

\* A socket has just been admitted while another open socket of the same
\* user is registered: the first got the one message, the other none.
C10_Witness ==
    /\ Len(calls) = 1
    /\ calls[1].method = "sendToClient"
    /\ \E c, d \in Registered :
        /\ c # d
        /\ userId[c] = userId[d]
        /\ readyState[d] = "OPEN"
        /\ Len(calls[1].sent[c]) = 1
        /\ calls[1].sent[d] = <<>>

\* The type the specification's closed enumeration sets aside for the
\* message that acknowledges an admission.
ConnectionAcknowledgement == "connection-acknowledgement"

\* C11: the message sent at admission has the connection-acknowledgement
\* type, which is neither config-updated nor any type a broadcast helper
\* produces, and every message written has a type of the enumeration (the
\* fourteen WebSocketEventType values and the acknowledgement type).
C11_AcknowledgementTypeDistinct ==
    /\ \A i \in CallsOf("sendToClient") :
        \A c \in Conns :
            \A k \in DOMAIN calls[i].sent[c] :
                /\ calls[i].sent[c][k].type = ConnectionAcknowledgement
                /\ calls[i].sent[c][k].type # "system:config_updated"
                /\ calls[i].sent[c][k].type \notin EventTypes
    /\ \A i \in DOMAIN calls :
        \A c \in Conns :
            \A k \in DOMAIN calls[i].sent[c] :
                calls[i].sent[c][k].type \in EventTypes \cup {ConnectionAcknowledgement}

\* C13: a broadcastToAll(E) call writes E exactly once to every open
\* registered socket, whatever its user and role, and nothing to a socket
\* that is not registered.
C13_RouteToAllExact ==
    \A i \in CallsOf("broadcastToAll") :
        \A c \in Conns :
            calls[i].sent[c] =
                IF c \in Registered /\ readyState[c] = "OPEN"
                THEN <<Wire(calls[i].event)>>
                ELSE <<>>

\* A call made while open sockets of two users, one with an elevated role
\* and one without, are registered and a rejected socket is not: both
\* registered sockets receive the event, the rejected one nothing.
C13_Witness ==
    \E i \in CallsOf("broadcastToAll") :
        \E c, d \in Registered :
            /\ userId[c] # userId[d]
            /\ role[c] \in ElevatedRoles
            /\ role[d] \in {"user", "viewer"}
            /\ calls[i].sent[c] = <<Wire(calls[i].event)>>
            /\ calls[i].sent[d] = <<Wire(calls[i].event)>>
            /\ \E e \in wssClients \ Registered : calls[i].sent[e] = <<>>

\* The sockets a router call resolves as its targets.
TargetSet(call) ==
    CASE call.method = "broadcastToUser" ->
            IF call.userId \in DOMAIN clients THEN clients[call.userId] ELSE {}
      [] call.method = "broadcastToAll" -> Registered
      [] call.method = "broadcastToAdmins" ->
            {c \in Registered : role[c] \in ElevatedRoles}
      [] OTHER -> {}

\* C14: within one router call, a socket of the resolved target set is
\* written to if and only if its readyState is OPEN; a socket that is not
\* open is skipped and the open sockets of the same call are still written.
C14_WrittenIffOpen ==
    \A i \in DOMAIN calls :
        \A c \in TargetSet(calls[i]) :
            calls[i].sent[c] # <<>> <=> readyState[c] = "OPEN"

\* A call whose target set holds a socket that is closing and a socket
\* that is open: the first is skipped, the second is written.
C14_Witness ==
    \E i \in DOMAIN calls :
        \E c, d \in TargetSet(calls[i]) :
            /\ readyState[c] = "CLOSING"
            /\ readyState[d] = "OPEN"
            /\ calls[i].sent[c] = <<>>
            /\ Len(calls[i].sent[d]) = 1

\* C17: no message written by a broadcastToAll or broadcastToAdmins call
\* carries a userId field.
C17_NoUserIdOnFanOut ==
    \A i \in CallsOf("broadcastToAll") \cup CallsOf("broadcastToAdmins") :
        \A c \in Conns :
            \A k \in DOMAIN calls[i].sent[c] :
                ~HasUserId(calls[i].sent[c][k])

\* One call of one of the fourteen broadcast helpers.
HelperCall ==
    \/ BroadcastDeviceOnline
    \/ BroadcastDeviceOffline
    \/ BroadcastDeviceError
    \/ \E u \in Subjects : BroadcastLampToggled(u)
    \/ BroadcastLampBrightnessChanged
    \/ \E u \in Subjects : BroadcastPermissionGranted(u)
    \/ \E u \in Subjects : BroadcastPermissionRevoked(u)
    \/ BroadcastUserCreated
    \/ \E u \in Subjects : BroadcastUserUpdated(u)
    \/ BroadcastUserDeleted
    \/ BroadcastAlertCreated
    \/ BroadcastAlertResolved
    \/ BroadcastMaintenanceMode
    \/ BroadcastConfigUpdated

\* All the messages the step's calls wrote to socket c, in order.
RECURSIVE WrittenTo(_, _)
WrittenTo(cs, c) ==
    IF cs = <<>> THEN <<>> ELSE cs[1].sent[c] \o WrittenTo(Tail(cs), c)

C18_HelperStep ==
    HelperCall =>
        /\ Len(calls') = 1
        /\ \A c \in Conns : Len(WrittenTo(calls', c)) <= 1

\* C18: one call of a broadcast helper makes exactly one router call with
\* one event, and no socket is written more than one message by it.
C18_OneRouterCallPerOccurrence == [][C18_HelperStep]_vars

\* Events of each routing kind, to compare what a router call would write
\* before and after a step.
ProbeEvents ==
    {CreateEvent("device:online", Undefined), CreateEvent("permission:granted", "u1")}

C16_MessageStep ==
    (Len(calls') = 1 /\ calls'[1].method = "onMessage") =>
        /\ readyState' = readyState
        /\ closeCode' = closeCode
        /\ clients' = clients
        /\ wssClients' = wssClients
        /\ \A e \in ProbeEvents :
            /\ BroadcastToAll(e)' = BroadcastToAll(e)
            /\ BroadcastToAdmins(e)' = BroadcastToAdmins(e)
            /\ \A u \in Subjects : BroadcastToUser(u, e)' = BroadcastToUser(u, e)

\* C16: the step that handles an inbound message (malformed, null, a
\* subscribe notice or anything else) closes no socket, leaves the
\* registry as it was, and leaves what every router call would write to
\* every socket as it was.
C16_InboundMessageInert == [][C16_MessageStep]_vars

\* A malformed message has just been handled for a user whose socket is
\* still open and registered, next to a socket of another user.
C16_Witness ==
    /\ Len(calls) = 1
    /\ calls[1].method = "onMessage"
    /\ calls[1].event.type = "malformed"
    /\ \E c, d \in Registered :
        /\ userId[c] = calls[1].userId
        /\ readyState[c] = "OPEN"
        /\ userId[d] # userId[c]

\* The socket of the latest upgrade request.
LastArrived ==
    CHOOSE c \in Conns :
        /\ readyState[c] # "ABSENT"
        /\ \A i, j \in DOMAIN ConnOrder :
            (ConnOrder[i] = c /\ i < j) => readyState[ConnOrder[j]] = "ABSENT"

\* What is seen of socket c when its admission verified the string token
\* and nothing else: registered as the user and role the token was signed
\* for, or closed with code 1008 and never registered.
AdmittedBy(c, token) ==
    IF token \in DOMAIN Signed /\ ~Signed[token].expired
    THEN /\ c \in listening
         /\ userId[c] = Signed[token].payload.userId
         /\ role[c] = Signed[token].payload.role
    ELSE /\ c \notin listening
         /\ closeCode[c] = PolicyViolation

\* C12 as stated: when the token query parameter and the Authorization
\* header are both present the outcome is that of verifying the query
\* value; the header's value is verified only when the query parameter is
\* absent.
C12_QueryParameterWins ==
    (history.on /\ readyState[ConnOrder[1]] # "ABSENT"
                /\ history.request.header.present) =>
        IF history.request.query # Undefined
        THEN AdmittedBy(LastArrived, history.request.query)
        ELSE AdmittedBy(LastArrived, history.request.header.rest)

\* C12: when the token query parameter is present and not empty, the
\* outcome is that of verifying the query value, whatever the header
\* holds; the header's value (Bearer prefix stripped) is verified when the
\* query parameter is absent or empty.
C12_NonEmptyQueryWins ==
    (history.on /\ readyState[ConnOrder[1]] # "ABSENT"
                /\ history.request.header.present) =>
        IF history.request.query \notin {Undefined, ""}
        THEN AdmittedBy(LastArrived, history.request.query)
        ELSE AdmittedBy(LastArrived, history.request.header.rest)

\* The latest request carried a valid token of one user in the query and
\* a valid token of another user in the header: its socket is registered
\* as the first user.
C12_Witness ==
    /\ history.on
    /\ readyState[ConnOrder[1]] # "ABSENT"
    /\ history.request.query = "jwt_u1_user"
    /\ history.request.header = [present |-> TRUE, bearer |-> TRUE, rest |-> "jwt_u2_super"]
    /\ LastArrived \in Registered
    /\ userId[LastArrived] = "u1"
    /\ role[LastArrived] = "user"

C19_AbsentSubjectStep ==
    \A i \in DOMAIN calls' :
        (calls'[i].method = "broadcastToUser" /\ calls'[i].userId \notin DOMAIN clients) =>
            /\ calls'[i].sent = NoWrites
            /\ UNCHANGED managerVars

C19_NothingFromBeforeAdmission ==
    \A c \in Conns :
        \A k \in DOMAIN history.outbox[c] :
            history.outbox[c][k].n > history.joined[c]

\* C19: a broadcastToUser call for a user with no registered socket writes
\* nothing and changes nothing, and its event is not kept: no socket is
\* ever given the message of a router call made before its admission.
C19_AbsentSubjectNoOpNoQueue ==
    /\ []C19_NothingFromBeforeAdmission
    /\ [][C19_AbsentSubjectStep]_vars

\* A broadcastToUser call for a user was made while no socket at all was
\* given its message; a socket of that user was admitted later and has
\* since been given the message of a later call.
C19_Witness ==
    \E c \in Registered :
        \E n \in 1..history.joined[c] :
            /\ history.subject[n] = userId[c]
            /\ \A d \in Conns : \A k \in DOMAIN history.outbox[d] :
                history.outbox[d][k].n # n
            /\ history.outbox[c] # <<>>

\* The order of the roles, lowest first.
RoleOrder == <<"viewer", "user", "admin", "super_admin">>

Rank(r) == CHOOSE i \in DOMAIN RoleOrder : RoleOrder[i] = r

\* The request handled last carries a Bearer token.
CarriesBearerToken ==
    /\ http.header.present
    /\ http.header.bearer
    /\ http.header.rest # ""

\* ... and the token is one jwt.verify accepts.
BearerTokenVerifies ==
    /\ CarriesBearerToken
    /\ http.header.rest \in DOMAIN Signed
    /\ ~Signed[http.header.rest].expired

\* ... and its role is at least the role the wrapper requires, if any.
RoleSuffices ==
    /\ BearerTokenVerifies
    /\ \/ http.requiredRole = Undefined
       \/ Rank(Signed[http.header.rest].payload.role) >= Rank(http.requiredRole)

\* C20: a handler wrapped by withAuth, withAdminAuth (required role admin)
\* or withSuperAdminAuth (required role super_admin) is invoked exactly
\* when the request carries a Bearer token that verifies and whose role is
\* at least the required one in the order viewer < user < admin <
\* super_admin; otherwise the response is 401 when the token is missing,
\* else 401 when it does not verify, else 403.
C20_HandlerOnlyWhenAuthorized ==
    http.wrapper # "none" =>
        /\ http.wrapper = "withAdminAuth" => http.requiredRole = "admin"
        /\ http.wrapper = "withSuperAdminAuth" => http.requiredRole = "super_admin"
        /\ http.response.handler <=> RoleSuffices
        /\ http.response.handler =>
            http.response.user = Signed[http.header.rest].payload
        /\ ~CarriesBearerToken =>
            /\ http.response.status = 401
            /\ http.response.error = "Authentication required"
        /\ (CarriesBearerToken /\ ~BearerTokenVerifies) =>
            /\ http.response.status = 401
            /\ http.response.error = "Invalid or expired token"
        /\ (BearerTokenVerifies /\ ~RoleSuffices) =>
            /\ http.response.status = 403

\* A request with the valid token of an admin reached a route wrapped by
\* withSuperAdminAuth: the answer is 403 and the handler did not run.
C20_Witness ==
    /\ http.wrapper = "withSuperAdminAuth"
    /\ http.header = [present |-> TRUE, bearer |-> TRUE, rest |-> "jwt_u1_admin"]
    /\ http.response.status = 403
    /\ ~http.response.handler

\* The step is a heartbeat tick: it visited some socket.
SweepStep == \E c \in Conns : missed'[c] = missed[c] + 1

C23_AliveOnRegistration ==
    \A c \in Conns : (c \notin listening /\ c \in listening') => isAlive'[c] = "true"

C23_SweepEffect ==
    SweepStep =>
        \A c \in Registered :
            /\ isAlive[c] = "false" =>
                /\ c \in destroyed'
                /\ readyState'[c] = "CLOSING"
            /\ isAlive[c] = "true" =>
                /\ isAlive'[c] = "false"
                /\ missed'[c] = missed[c] + 1
                /\ c \notin destroyed'
                /\ readyState'[c] = readyState[c]
                /\ c \in Registered'

\* C23: a socket is alive (isAlive true) when it is registered; a heartbeat
\* tick terminates every registered socket whose flag is false when the
\* tick starts, and sets the flag of every other registered socket to
\* false and pings it; no tick terminates or unregisters a socket whose
\* flag is true when the tick starts.
C23_AliveUnconfirmedRemoved ==
    /\ [](\A c \in Registered : isAlive[c] \in {"true", "false"})
    /\ [][C23_AliveOnRegistration /\ C23_SweepEffect]_vars

\* A tick has just terminated one registered socket and marked another,
\* which is still open and registered.
C23_Witness ==
    \E c, d \in Registered :
        /\ c \in destroyed
        /\ d \notin destroyed
        /\ isAlive[d] = "false"
        /\ missed[d] = 1
        /\ readyState[d] = "OPEN"

C24_TerminatedOnlyAfterSilence ==
    \A c \in Conns :
        (c \notin destroyed /\ c \in destroyed') =>
            /\ missed[c] >= 1
            /\ isAlive[c] = "false"

C24_RegisteredUntilClose ==
    \A c \in listening : readyState[c] # "CLOSED" => c \in Registered

\* C24: a tick terminates a registered socket only if no pong of that
\* socket was handled since the tick before, so a socket whose pong is
\* handled between every two consecutive ticks is never terminated by the
\* heartbeat; and a socket stays registered until its close event.
C24_PongKeepsAlive ==
    /\ []C24_RegisteredUntilClose
    /\ [][C24_TerminatedOnlyAfterSilence]_vars

\* A socket has lived through two ticks with a pong after each: it is
\* open, registered and alive, while a socket admitted after it has missed
\* two ticks in a row.
C24_Witness ==
    \E i, j \in DOMAIN ConnOrder :
        /\ i < j
        /\ ConnOrder[i] \in Registered
        /\ readyState[ConnOrder[i]] = "OPEN"
        /\ isAlive[ConnOrder[i]] = "true"
        /\ missed[ConnOrder[i]] = 0
        /\ ConnOrder[j] \in listening
        /\ missed[ConnOrder[j]] = 2

\* C27: a heartbeat tick neither marks, pings nor terminates a socket that
\* failed admission and was never registered.
C27_SweepSkipsUnregistered ==
    \A c \in Conns \ listening :
        /\ isAlive[c] = "undefined"
        /\ missed[c] = 0
        /\ c \notin destroyed

C26_ErrorStep ==
    \A c \in Conns : ErrorEvent(c) => c \notin Registered'

\* C26: when the error handler of a registered socket has run, the socket
\* is no longer in the set of its user.
C26_ErrorRemoves == [][C26_ErrorStep]_vars

\* The calls of the step that are router calls.
RouterCalls ==
    CallsOf("broadcastToUser") \cup CallsOf("broadcastToAll")
        \cup CallsOf("broadcastToAdmins")

\* C25: at a router call, no socket that a heartbeat tick has terminated
\* or that is closed is a member of the set of its user, and its user is
\* listed by getConnectedUserIds() only on account of another socket.
C25_RemovedInSameStep ==
    RouterCalls # {} =>
        \A c \in listening :
            (c \in destroyed \/ readyState[c] = "CLOSED") =>
                /\ c \notin Registered
                /\ userId[c] \in GetConnectedUserIds =>
                    \E d \in Registered \ {c} : userId[d] = userId[c]

\* C28: no router call writes to a socket that is closing, closed or
\* terminated, registered or not.
C28_NoWriteAfterClose ==
    \A i \in DOMAIN calls :
        \A c \in Conns :
            (c \in destroyed \/ readyState[c] \in {"CLOSING", "CLOSED"}) =>
                calls[i].sent[c] = <<>>

\* A router call was made between the termination of a socket by a tick
\* and its close event: the socket was among the call's targets and was
\* not written to, another target was.
C28_Witness ==
    \E i \in RouterCalls :
        \E c, d \in TargetSet(calls[i]) :
            /\ c \in destroyed
            /\ calls[i].sent[c] = <<>>
            /\ readyState[d] = "OPEN"
            /\ Len(calls[i].sent[d]) = 1

C30_MessageStep ==
    (Len(calls') = 1 /\ calls'[1].method = "onMessage") =>
        /\ isAlive' = isAlive
        /\ missed' = missed

C30_RevivedByPongOnly ==
    \A c \in Conns :
        (isAlive[c] = "false" /\ isAlive'[c] = "true") =>
            /\ calls' = <<>>
            /\ missed'[c] = 0

C30_SilentSocketEvicted ==
    \A c \in listening :
        missed[c] >= 2 => (c \in destroyed \/ readyState[c] = "CLOSED")

\* C30: handling an inbound message leaves isAlive as it was; the flag
\* goes from false to true only in the pong handler; so a socket that
\* sends messages but answers no ping is terminated by the second tick
\* after its last pong (or its admission).
C30_MessagesDoNotRevive ==
    /\ []C30_SilentSocketEvicted
    /\ [][C30_MessageStep /\ C30_RevivedByPongOnly]_vars

\* A message of a user has just been handled whose only socket was marked
\* by a tick and has not answered: the flag is still false.
C30_Witness ==
    /\ Len(calls) = 1
    /\ calls[1].method = "onMessage"
    /\ calls[1].userId \in DOMAIN clients
    /\ \E c \in Conns :
        /\ clients[calls[1].userId] = {c}
        /\ readyState[c] = "OPEN"
        /\ isAlive[c] = "false"
        /\ missed[c] = 1

\* ------------------------------------------------------------------------
\* Admin routes and the database

\* Request i of the list is answered by the step: it has a final position
\* after the step and had none before.
Answered(i) ==
    /\ i \in DOMAIN requests'
    /\ requests'[i].pc = "done"
    /\ (i \in DOMAIN requests => requests[i].pc # "done")

\* C21: in every interleaving of POST /api/v2/admin/users requests, a
\* request that passed validation and the canManageUser check and whose
\* username or e-mail address is held by a row of the users table at the
\* moment it is answered (the moment its INSERT runs or would run) is
\* answered 409 and leaves the users table as it was.
C21_TakenAtInsertIsConflict ==
    [][\A i \in DOMAIN requests' :
          ( /\ Answered(i)
            /\ requests'[i].op = "createUser"
            /\ requests'[i].status \notin {400, 403}
            /\ InsertUserThrows(db, requests'[i].username, requests'[i].email) )
          => /\ requests'[i].status = 409
             /\ db'.users = db.users]_vars

\* The rows of the permissions table for one user and one resource.
ActivePermissions(uid, resource) ==
    {row \in db.permissions : row.userId = uid /\ row.resource = resource}

C22_OneRowPerKey ==
    \A row, other \in db.permissions :
        (row.userId = other.userId /\ row.resource = other.resource)
            => row = other

C22_DuplicateGrantRefused ==
    \A i \in DOMAIN requests' :
        ( /\ Answered(i)
          /\ requests'[i].op = "grant"
          /\ ActivePermissions(requests'[i].userId, requests'[i].resource) # {} )
        => /\ requests'[i].status = 409
           /\ db' = db

\* C22: in every interleaving of grant and revoke requests the permissions
\* table holds at most one row per user and resource, and a grant for a
\* user and resource that have a row is answered 409 and leaves the
\* table as it was.
C22_AtMostOneActivePermission ==
    /\ []C22_OneRowPerKey
    /\ [][C22_DuplicateGrantRefused]_vars

\* A grant was answered 200, a second grant for the same user and
\* resource was answered 409, and a revoke of the permission has deleted
\* the row.
C22_Witness ==
    \E i, j, k \in DOMAIN requests :
        /\ i < j /\ j < k
        /\ requests[i].op = "grant" /\ requests[i].status = 200
        /\ requests[j].op = "grant" /\ requests[j].status = 409
        /\ requests[j].userId = requests[i].userId
        /\ requests[j].resource = requests[i].resource
        /\ requests[k].op = "revoke" /\ requests[k].id = requests[i].id
        /\ requests[k].pc = "import"
        /\ ActivePermissions(requests[i].userId, requests[i].resource) = {}

\* A step that answers a request with 400, 403, 404 or 409 makes no
\* router call and leaves the database as it was.
C29_ErrorRoutesNothing ==
    \A i \in DOMAIN requests' :
        (Answered(i) /\ requests'[i].status \in {400, 403, 404, 409})
            => (calls' = <<>> /\ db' = db)

\* A step that makes router calls answers one request with 200, the calls
\* are those of the request's event, and the request's change is in the
\* database: the inserted row is there, the deleted row is gone.
C29_RoutedAfterMutation ==
    calls' # <<>> =>
        \E i \in DOMAIN requests' :
            /\ Answered(i)
            /\ requests'[i].status = 200
            /\ \A j \in DOMAIN requests' : Answered(j) => j = i
            /\ \/ /\ requests'[i].op = "grant"
                  /\ calls' = PermissionGrantedCalls(requests'[i].userId)
                  /\ [id |-> requests'[i].id, userId |-> requests'[i].userId,
                      resource |-> requests'[i].resource] \in db'.permissions
               \/ /\ requests'[i].op = "createUser"
                  /\ calls' = UserCreatedCalls
                  /\ \E row \in db'.users :
                        /\ row.username = requests'[i].username
                        /\ row.email = requests'[i].email
               \/ /\ requests'[i].op = "revoke"
                  /\ calls' = PermissionRevokedCalls(requests'[i].userId)
                  /\ ~\E row \in db.permissions : row.id = requests'[i].id
                  /\ ~\E row \in db'.permissions : row.id = requests'[i].id

\* Of the revokes of a permission that was granted, the first deletes the
\* row and is answered 200 with the owner as the addressee of its event,
\* every later one is answered 404.
C29_SecondRevokeNotFound ==
    \A g, i \in DOMAIN requests :
        ( /\ g < i
          /\ requests[g].op = "grant" /\ requests[g].status = 200
          /\ requests[i].op = "revoke" /\ requests[i].id = requests[g].id )
        => IF \E h \in DOMAIN requests :
                /\ g < h /\ h < i
                /\ requests[h].op = "revoke" /\ requests[h].id = requests[g].id
           THEN requests[i].status = 404
           ELSE /\ requests[i].status \in {0, 200}
                /\ requests[i].userId = requests[g].userId

\* C29: permission:granted, permission:revoked and user:created are routed
\* only by a request answered 200 whose change of the database has been
\* made; a request answered 400, 403, 404 or 409 routes nothing; of two
\* revokes of one permission exactly one routes permission:revoked, to the
\* permission's owner.
C29_EventsFollowMutations ==
    /\ []C29_SecondRevokeNotFound
    /\ [][C29_ErrorRoutesNothing /\ C29_RoutedAfterMutation]_vars

\* A permission was granted and revoked twice: the first revoke has routed
\* its event and the second was answered 404.
C29_Witness ==
    \E g, i, j \in DOMAIN requests :
        /\ g < i /\ i < j
        /\ requests[g].op = "grant" /\ requests[g].status = 200
        /\ requests[i].op = "revoke" /\ requests[i].id = requests[g].id
        /\ requests[i].status = 200
        /\ requests[j].op = "revoke" /\ requests[j].id = requests[g].id
        /\ requests[j].status = 404
        /\ calls = PermissionRevokedCalls(requests[g].userId)

====
